---------------------------- MODULE Spec2Model ----------------------------
(***************************************************************************)
(* Model of the "filler" player (aalahmed98/filler, docker_image/solution). *)
(*                                                                         *)
(*   board.rs   Board::from_anfield_lines, classify_char                   *)
(*   piece.rs   Piece::from_piece_lines                                    *)
(*   game.rs    Game::choose_best_move and its helpers                     *)
(*   main.rs    the turn loop                                              *)
(*                                                                         *)
(* Coordinates are 0-based as in the source; TLA+ sequences are 1-based,   *)
(* so cells[y][x] of the source is cells[y + 1][x + 1] here.               *)
(* An Option is a record [tag |-> "Some", val |-> v] or [tag |-> "None"];  *)
(* a Rust panic (index out of range, division by zero) is the record       *)
(* [tag |-> "Panic", why |-> ...].                                          *)
(***************************************************************************)
EXTENDS Integers, Sequences, FiniteSets, TLC

VARIABLES
    pc,             \* position of the modelled process
    board,          \* the Board of the current turn (or None)
    piece,          \* the Piece of the current turn (or None)
    result,         \* what choose_best_move gave back (or None before the call)
    my_player,      \* main.rs: my_player
    anfield_lines,  \* main.rs: anfield_lines / the input of from_anfield_lines
    piece_lines,    \* main.rs: piece_lines / the input of from_piece_lines
    need,           \* main.rs: pattern lines still to read (for _ in 0..height)
    output,         \* the lines printed on stdout so far
    nread           \* number of lines read from stdin so far

vars == <<pc, board, piece, result, my_player, anfield_lines, piece_lines,
          need, output, nread>>

-----------------------------------------------------------------------------
(* Bounds of the model *)

MaxRows == 2
MaxCols == 2
MaxOwned == 2
MaxPieceH == 2
MaxPieceW == 1
MaxBoardLines == 2
MaxLineCells == 2
MaxPatternLines == 1
MaxPatternLen == 2
MaxRead == 6

-----------------------------------------------------------------------------
(* Option / panic values *)

None == [tag |-> "None"]
Some(v) == [tag |-> "Some", val |-> v]
Panic(w) == [tag |-> "Panic", why |-> w]

(* usize::MAX.  TLC integers are 32 bit, so the largest of them stands for *)
(* 2^64 - 1; every real distance and coordinate of the model is far below. *)
USIZE_MAX == 2147483647

(* `u as i64` on a 64-bit target: usize::MAX wraps to -1, every other     *)
(* value of the model is unchanged.                                        *)
AsI64(u) == IF u = USIZE_MAX THEN -1 ELSE u

Abs(n) == IF n < 0 THEN -n ELSE n
Range(f) == {f[i] : i \in DOMAIN f}
MinOf(S) == CHOOSE m \in S : \A n \in S : m <= n
MaxOf(S) == CHOOSE m \in S : \A n \in S : m >= n

-----------------------------------------------------------------------------
(* board.rs: Owner, Board *)

Owner == {"Empty", "Me", "Opponent"}

(* board.cells[y][x]; the caller has checked the index. *)
Cell(b, y, x) == b.cells[y + 1][x + 1]

(* Would board.cells[y][x] be inside the Vec<Vec<Owner>>? *)
IndexOk(b, y, x) == y < Len(b.cells) /\ x < Len(b.cells[y + 1])

-----------------------------------------------------------------------------
(* game.rs *)

(* The (y, x) pairs of `for y in 0..rows { for x in 0..cols` in row-major  *)
(* order.                                                                  *)
Coords(b) ==
    [i \in 1..(b.rows * b.cols) |-> <<(i - 1) \div b.cols, (i - 1) % b.cols>>]

(* Lines 25-33: the precomputation indexes board.cells[y][x] for every     *)
(* y < rows, x < cols; a row shorter than cols makes it panic.             *)
PrecomputePanics(b) ==
    \E i \in 1..(b.rows * b.cols) : ~IndexOk(b, Coords(b)[i][1], Coords(b)[i][2])

OwnedCoords(b, o) == SelectSeq(Coords(b), LAMBDA c : Cell(b, c[1], c[2]) = o)

Manhattan(a, c) == Abs(a[1] - c[1]) + Abs(a[2] - c[2])

RECURSIVE ClosestFrom(_, _, _, _)
ClosestFrom(my, en, k, best) ==
    IF k > Len(my) * Len(en) THEN best
    ELSE LET m == my[((k - 1) \div Len(en)) + 1]
             e == en[((k - 1) % Len(en)) + 1]
             dist == Manhattan(m, e)
         IN  ClosestFrom(my, en, k + 1,
                         IF dist < best[3] THEN <<m, e, dist>> ELSE best)

find_closest_pair(my_coords, enemy_coords) ==
    IF enemy_coords = <<>> \/ my_coords = <<>>
    THEN <<IF my_coords = <<>> THEN <<0, 0>> ELSE my_coords[1], <<0, 0>>, USIZE_MAX>>
    ELSE ClosestFrom(my_coords, enemy_coords, 1,
                     <<my_coords[1], enemy_coords[1], USIZE_MAX>>)

RECURSIVE SumSeq(_, _)
SumSeq(s, f) == IF s = <<>> THEN 0 ELSE s[1][f] + SumSeq(Tail(s), f)

calculate_centroid(coords) ==
    IF coords = <<>> THEN <<0, 0>>
    ELSE <<SumSeq(coords, 1) \div Len(coords), SumSeq(coords, 2) \div Len(coords)>>

DIRS == <<<<1, 0>>, <<-1, 0>>, <<0, 1>>, <<0, -1>>>>

find_frontier(my_coords, b) ==
    SelectSeq(my_coords,
              LAMBDA c : \E d \in 1..4 :
                  LET ny == c[1] + DIRS[d][1]
                      nx == c[2] + DIRS[d][2]
                  IN  /\ ny >= 0 /\ nx >= 0
                      /\ ny < b.rows /\ nx < b.cols
                      /\ Cell(b, ny, nx) = "Empty")

(* The loop of is_valid_placement from the i-th offset on.  It is only     *)
(* called after the precomputation of choose_best_move went through, so    *)
(* every row has at least cols cells and the index is in range.            *)
RECURSIVE ValidFrom(_, _, _, _, _, _)
ValidFrom(b, cells, top_y, left_x, i, overlap_count) ==
    IF i > Len(cells) THEN overlap_count = 1
    ELSE LET y == top_y + cells[i][1]
             x == left_x + cells[i][2]
         IN  IF y >= b.rows \/ x >= b.cols THEN FALSE
             ELSE IF Cell(b, y, x) = "Opponent" THEN FALSE
             ELSE IF Cell(b, y, x) = "Me"
                  THEN IF overlap_count + 1 > 1 THEN FALSE
                       ELSE ValidFrom(b, cells, top_y, left_x, i + 1, overlap_count + 1)
             ELSE ValidFrom(b, cells, top_y, left_x, i + 1, overlap_count)

(* Mutants of is_valid_placement: the Opponent test left out; a second Me  *)
(* overlap let through; a placement without any Me overlap let through.    *)
CoveredOwners(b, p, top_y, left_x, o) ==
    {i \in 1..Len(p.cells) :
        Cell(b, top_y + p.cells[i][1], left_x + p.cells[i][2]) = o}

CoversInside(b, p, top_y, left_x) ==
    \A i \in 1..Len(p.cells) :
        top_y + p.cells[i][1] < b.rows /\ left_x + p.cells[i][2] < b.cols

is_valid_placement_opponent_unchecked(b, p, top_y, left_x) ==
    /\ CoversInside(b, p, top_y, left_x)
    /\ Cardinality(CoveredOwners(b, p, top_y, left_x, "Me")) = 1

is_valid_placement_any_overlap(b, p, top_y, left_x) ==
    /\ CoversInside(b, p, top_y, left_x)
    /\ CoveredOwners(b, p, top_y, left_x, "Opponent") = {}
    /\ Cardinality(CoveredOwners(b, p, top_y, left_x, "Me")) >= 1

is_valid_placement_no_overlap_needed(b, p, top_y, left_x) ==
    /\ CoversInside(b, p, top_y, left_x)
    /\ CoveredOwners(b, p, top_y, left_x, "Opponent") = {}
    /\ Cardinality(CoveredOwners(b, p, top_y, left_x, "Me")) <= 1

is_valid_placement(b, p, top_y, left_x) ==
    ValidFrom(b, p.cells, top_y, left_x, 1, 0)

(* ((dot as f64) / norm) as i64 with norm = sqrt(n): the quotient          *)
(* truncated toward zero.                                                  *)
TruncDivSqrt(dot, n) ==
    LET k == MaxOf({j \in 0..Abs(dot) : j * j * n <= dot * dot})
    IN  IF dot < 0 THEN -k ELSE k

(* Line 279: the distance above which the rush formula is used. *)
RUSH_DISTANCE == 5

(* A variant that already rushes at exactly RUSH_DISTANCE. *)
scoring_mode_inclusive(current_min_distance) ==
    IF current_min_distance >= RUSH_DISTANCE THEN "rush" ELSE "block"

(* Line 279: `if current_min_distance > 5` picks the formula. *)
scoring_mode(current_min_distance) ==
    IF current_min_distance > RUSH_DISTANCE THEN "rush" ELSE "block"

(* a / b on i64: panics on a zero divisor.  Every dividend of the model    *)
(* is positive, so truncation and \div agree.                              *)
score_placement(b, p, top_y, left_x, enemy_coords, frontier, target_direction, current_min_distance, closest_enemy) ==
    LET piece_cells ==
            [i \in 1..Len(p.cells) |-> <<top_y + p.cells[i][1], left_x + p.cells[i][2]>>]
        new_territory ==
            Cardinality({i \in 1..Len(piece_cells) :
                            Cell(b, piece_cells[i][1], piece_cells[i][2]) = "Empty"})
        adjacent_to_enemy ==
            Cardinality({id \in (1..Len(piece_cells)) \X (1..4) :
                LET ny == piece_cells[id[1]][1] + DIRS[id[2]][1]
                    nx == piece_cells[id[1]][2] + DIRS[id[2]][2]
                IN  /\ ny >= 0 /\ nx >= 0 /\ ny < b.rows /\ nx < b.cols
                    /\ Cell(b, ny, nx) = "Opponent"})
        fy == IF frontier = <<>> THEN 0 ELSE frontier[1][1]
        fx == IF frontier = <<>> THEN 0 ELSE frontier[1][2]
        Advance(c) ==
            IF target_direction[1] # 0 \/ target_direction[2] # 0
            THEN TruncDivSqrt((c[1] - fy) * target_direction[1]
                                + (c[2] - fx) * target_direction[2],
                              target_direction[1] * target_direction[1]
                                + target_direction[2] * target_direction[2])
            ELSE 0
        best_advance == MaxOf({Advance(piece_cells[i]) : i \in 1..Len(piece_cells)})
        min_dist_to_enemy ==
            IF enemy_coords = <<>> THEN USIZE_MAX
            ELSE MinOf({Manhattan(piece_cells[i], enemy_coords[j]) :
                           i \in 1..Len(piece_cells), j \in 1..Len(enemy_coords)})
        dist_to_target ==
            MinOf({Manhattan(piece_cells[i], closest_enemy) : i \in 1..Len(piece_cells)})
        divisor == AsI64(min_dist_to_enemy) + 1
    IN  IF divisor = 0 THEN Panic("attempt to divide by zero")
        ELSE IF scoring_mode(current_min_distance) = "rush"
        THEN LET distance_reduction ==
                     AsI64(current_min_distance) - AsI64(min_dist_to_enemy)
                 closeness_score == 1000000 \div divisor
             IN  Some(closeness_score * 100
                      + distance_reduction * 50000
                      + best_advance * 1000
                      + new_territory * 10
                      + adjacent_to_enemy * 100000)
        ELSE LET closeness_score == 100000 \div divisor
             IN  Some(adjacent_to_enemy * 50000
                      + closeness_score * 50
                      + new_territory * 2000
                      + best_advance * 500
                      - AsI64(dist_to_target) * 100)

saturating_sub(a, c) == IF a >= c THEN a - c ELSE 0

(* Lines 65-66: the anchors scanned are 0..max_y x 0..max_x. *)
max_y(b, p) == saturating_sub(b.rows, p.height) + 1
max_x(b, p) == saturating_sub(b.cols, p.width) + 1

(* The k-th anchor (1-based) of the row-major scan. *)
Anchor(b, p, k) == <<(k - 1) \div max_x(b, p), (k - 1) % max_x(b, p)>>

(* Line 80: `if score > best_score`, with best_score = i64::MIN before the *)
(* first candidate (every score of the model is above i64::MIN).           *)
Better(score, best) == best.pos = None \/ score > best.score

(* The per-turn context computed in lines 22-59. *)
Context(b) ==
    LET enemy_coords == OwnedCoords(b, "Opponent")
        my_coords == OwnedCoords(b, "Me")
        closest == find_closest_pair(my_coords, enemy_coords)
        my_center == calculate_centroid(my_coords)
    IN  [enemy_coords |-> enemy_coords,
         my_coords |-> my_coords,
         closest_my |-> closest[1],
         closest_enemy |-> closest[2],
         min_distance |-> closest[3],
         target_direction |->
             IF enemy_coords # <<>>
             THEN <<closest[2][1] - closest[1][1], closest[2][2] - closest[1][2]>>
             ELSE <<(b.rows \div 2) - my_center[1], (b.cols \div 2) - my_center[2]>>,
         frontier |-> find_frontier(my_coords, b)]

Score(b, p, ctx, top_y, left_x) ==
    score_placement(b, p, top_y, left_x, ctx.enemy_coords, ctx.frontier,
                    ctx.target_direction, ctx.min_distance, ctx.closest_enemy)

(* Lines 68-87: the scan from the k-th anchor on. *)
RECURSIVE ScanFrom(_, _, _, _, _)
ScanFrom(b, p, ctx, k, best) ==
    IF k > max_y(b, p) * max_x(b, p) THEN best.pos
    ELSE LET a == Anchor(b, p, k)
         IN  IF ~is_valid_placement(b, p, a[1], a[2])
             THEN ScanFrom(b, p, ctx, k + 1, best)
             ELSE LET score == Score(b, p, ctx, a[1], a[2])
                  IN  IF score.tag = "Panic" THEN score
                      ELSE IF Better(score.val, best)
                      THEN ScanFrom(b, p, ctx, k + 1, [pos |-> Some(a), score |-> score.val])
                      ELSE ScanFrom(b, p, ctx, k + 1, best)

choose_best_move(b, p) ==
    IF p.cells = <<>> \/ b.rows = 0 \/ b.cols = 0 THEN None
    ELSE IF PrecomputePanics(b) THEN Panic("index out of bounds")
    ELSE LET ctx == Context(b)
         IN  IF ctx.my_coords = <<>> THEN None
             ELSE ScanFrom(b, p, ctx, 1, [pos |-> None, score |-> 0])

(* The branches of line 279 taken by the calls of score_placement (line    *)
(* 73) during the scan from the k-th anchor on; a panic in a score ends    *)
(* the scan after its branch was taken.                                    *)
RECURSIVE ModesFrom(_, _, _, _, _)
ModesFrom(b, p, ctx, k, used) ==
    IF k > max_y(b, p) * max_x(b, p) THEN used
    ELSE LET a == Anchor(b, p, k)
         IN  IF ~is_valid_placement(b, p, a[1], a[2])
             THEN ModesFrom(b, p, ctx, k + 1, used)
             ELSE LET taken == used \cup {scoring_mode(ctx.min_distance)}
                  IN  IF Score(b, p, ctx, a[1], a[2]).tag = "Panic" THEN taken
                      ELSE ModesFrom(b, p, ctx, k + 1, taken)

(* The formulas one call of choose_best_move scores its candidates with. *)
ModesOfCall(b, p) ==
    IF p.cells = <<>> \/ b.rows = 0 \/ b.cols = 0 THEN {}
    ELSE IF PrecomputePanics(b) THEN {}
    ELSE LET ctx == Context(b)
         IN  IF ctx.my_coords = <<>> THEN {}
             ELSE ModesFrom(b, p, ctx, 1, {})

-----------------------------------------------------------------------------
(* The inputs of choose_best_move: the Board and Piece values the parsers  *)
(* can build (from_anfield_lines keeps rows of any non-zero length,        *)
(* rows = cells.len(), cols = cells[0].len(); from_piece_lines lists the   *)
(* filled offsets row by row inside a height x width box).                 *)

RowLens == UNION {[1..r -> 1..MaxCols] : r \in 1..MaxRows}

Positions(lens) == {yx \in (0..(Len(lens) - 1)) \X (0..(MaxCols - 1)) : yx[2] < lens[yx[1] + 1]}

MkBoard(lens, own) ==
    [rows |-> Len(lens),
     cols |-> lens[1],
     cells |-> [y \in 1..Len(lens) |->
                  [x \in 1..lens[y] |->
                      IF <<y - 1, x - 1>> \in DOMAIN own THEN own[<<y - 1, x - 1>>]
                      ELSE "Empty"]]]

BoardsOf(lenses) ==
    UNION {UNION {{MkBoard(lens, own) : own \in [S -> {"Me", "Opponent"}]} :
                     S \in {T \in SUBSET Positions(lens) : Cardinality(T) <= MaxOwned}} :
              lens \in lenses}

(* The scenario board of the spec: 3x3, empty but for a Me cell at (1,1). *)
ScenarioBoard ==
    [rows |-> 3, cols |-> 3,
     cells |-> <<<<"Empty", "Empty", "Empty">>,
                 <<"Empty", "Me", "Empty">>,
                 <<"Empty", "Empty", "Empty">>>>]

(* One-row boards long enough for two cells to be more than RUSH_DISTANCE  *)
(* apart, so that the rush formula is scored with an opponent on the board. *)
CorridorLen == RUSH_DISTANCE + 2

CorridorBoards ==
    UNION {{[rows |-> 1, cols |-> CorridorLen,
             cells |-> <<[x \in 1..CorridorLen |->
                            IF x = m THEN "Me" ELSE IF x = e THEN "Opponent" ELSE "Empty"]>>] :
               e \in (1..CorridorLen) \ {m}} : m \in 1..CorridorLen}

Boards == BoardsOf(RowLens) \cup {ScenarioBoard} \cup CorridorBoards

(* The offsets of a set, row by row, as from_piece_lines pushes them. *)
RowMajor(h, w, S) ==
    SelectSeq([i \in 1..(h * w) |-> <<(i - 1) \div w, (i - 1) % w>>], LAMBDA c : c \in S)

Pieces ==
    UNION {UNION {{[width |-> w, height |-> h, cells |-> RowMajor(h, w, S)] :
                       S \in (SUBSET ((0..(h - 1)) \X (0..(w - 1)))) \ {{}}} :
                     w \in 1..MaxPieceW} :
              h \in 1..MaxPieceH}

-----------------------------------------------------------------------------
(* SpecMove: one call of choose_best_move on every board and piece of the  *)
(* bounded sets.                                                           *)

InitMove ==
    /\ pc = "ready"
    /\ board \in Boards
    /\ piece \in Pieces
    /\ result = None
    /\ my_player = 1
    /\ anfield_lines = <<>>
    /\ piece_lines = <<>>
    /\ need = 0
    /\ output = <<>>
    /\ nread = 0

CallChooseBestMove ==
    /\ pc = "ready"
    /\ result' = choose_best_move(board, piece)
    /\ pc' = "done"
    /\ UNCHANGED <<board, piece, my_player, anfield_lines, piece_lines, need,
                   output, nread>>

NextMove == CallChooseBestMove

SpecMove == InitMove /\ [][NextMove]_vars

-----------------------------------------------------------------------------
(* SpecTurns: the calls of choose_best_move of successive turns.  Game     *)
(* holds my_player only and every turn builds its Board and Piece anew     *)
(* (main.rs:39-123), so a turn is one call on a fresh board and piece.     *)
(* nread counts the turns begun; output lists, turn by turn, the formulas  *)
(* the call scored its candidates with.                                    *)

MaxTurns == 3

(* One-row boards with room for two anchors next to a Me cell that is more *)
(* than RUSH_DISTANCE away from the Opponent cell.                         *)
TurnLen == RUSH_DISTANCE + 3

(* One Me cell and at most one Opponent cell (e = m: none). *)
TurnBoards ==
    UNION {{[rows |-> 1, cols |-> TurnLen,
             cells |-> <<[x \in 1..TurnLen |->
                            IF x = m THEN "Me" ELSE IF x = e THEN "Opponent" ELSE "Empty"]>>] :
               e \in 1..TurnLen} : m \in 1..TurnLen}

(* "Piece 1 1:" "*" and "Piece 2 1:" "**". *)
TurnPieces ==
    {[width |-> 1, height |-> 1, cells |-> <<<<0, 0>>>>],
     [width |-> 2, height |-> 1, cells |-> <<<<0, 0>>, <<0, 1>>>>]}

InitTurns ==
    /\ pc = "ready"
    /\ board \in TurnBoards
    /\ piece \in TurnPieces
    /\ result = None
    /\ my_player = 1
    /\ anfield_lines = <<>>
    /\ piece_lines = <<>>
    /\ need = 0
    /\ output = <<>>
    /\ nread = 1

(* main.rs:120: this turn's call. *)
CallInTurn ==
    /\ pc = "ready"
    /\ result' = choose_best_move(board, piece)
    /\ output' = Append(output, ModesOfCall(board, piece))
    /\ pc' = "done"
    /\ UNCHANGED <<board, piece, my_player, anfield_lines, piece_lines, need, nread>>

(* main.rs:39-117: the call returned, the move is printed and the next     *)
(* iteration parses a new board and a new piece.  A panic ended the        *)
(* process.                                                                *)
NextTurn ==
    /\ pc = "done"
    /\ result.tag # "Panic"
    /\ nread < MaxTurns
    /\ nread' = nread + 1
    /\ board' \in TurnBoards
    /\ piece' \in TurnPieces
    /\ result' = None
    /\ pc' = "ready"
    /\ UNCHANGED <<my_player, anfield_lines, piece_lines, need, output>>

NextTurns ==
    \/ CallInTurn
    \/ NextTurn

SpecTurns == InitTurns /\ [][NextTurns]_vars

-----------------------------------------------------------------------------
(* Text.  A line is a sequence of one-character strings. *)

DigitChars == <<"0", "1", "2", "3", "4", "5", "6", "7", "8", "9">>
IsDigit(c) == c \in Range(DigitChars)
IsWhitespace(c) == c \in {" ", "\t"}

StartsWith(s, prefix) ==
    Len(s) >= Len(prefix) /\ SubSeq(s, 1, Len(prefix)) = prefix

RECURSIVE TrimStart(_)
TrimStart(s) ==
    IF s # <<>> /\ IsWhitespace(s[1]) THEN TrimStart(Tail(s)) ELSE s

RECURSIVE TrimEnd(_)
TrimEnd(s) ==
    IF s # <<>> /\ IsWhitespace(s[Len(s)]) THEN TrimEnd(SubSeq(s, 1, Len(s) - 1)) ELSE s

Trim(s) == TrimEnd(TrimStart(s))

(* tok.trim_end_matches(':') *)
RECURSIVE TrimEndColons(_)
TrimEndColons(s) ==
    IF s # <<>> /\ s[Len(s)] = ":" THEN TrimEndColons(SubSeq(s, 1, Len(s) - 1)) ELSE s

(* s.split_whitespace().collect(): the maximal runs of non-whitespace. *)
RECURSIVE SplitFrom(_, _, _)
SplitFrom(s, cur, parts) ==
    IF s = <<>> THEN (IF cur = <<>> THEN parts ELSE Append(parts, cur))
    ELSE IF IsWhitespace(s[1])
         THEN SplitFrom(Tail(s), <<>>, IF cur = <<>> THEN parts ELSE Append(parts, cur))
         ELSE SplitFrom(Tail(s), Append(cur, s[1]), parts)

SplitWhitespace(s) == SplitFrom(s, <<>>, <<>>)

DigitValue(c) == (CHOOSE k \in 1..10 : DigitChars[k] = c) - 1

RECURSIVE DecimalValue(_, _)
DecimalValue(s, acc) ==
    IF s = <<>> THEN acc ELSE DecimalValue(Tail(s), acc * 10 + DigitValue(s[1]))

(* tok.parse::<usize>() and tok.parse::<u8>() on the tokens of the model:  *)
(* a non-empty run of decimal digits (short enough not to overflow).       *)
ParseNumber(tok) ==
    IF tok # <<>> /\ \A k \in 1..Len(tok) : IsDigit(tok[k])
    THEN Some(DecimalValue(tok, 0))
    ELSE None

(* format!("{}", n) for a usize. *)
RECURSIVE Decimal(_)
Decimal(n) ==
    IF n < 10 THEN <<DigitChars[n + 1]>>
    ELSE Append(Decimal(n \div 10), DigitChars[(n % 10) + 1])

ANFIELD == <<"A", "n", "f", "i", "e", "l", "d">>
PIECE == <<"P", "i", "e", "c", "e">>
EXEC_PREFIX == <<"$", "$", "$", " ", "e", "x", "e", "c", " ", "p">>

-----------------------------------------------------------------------------
(* board.rs: from_anfield_lines *)

classify_char(c, player) ==
    IF c = "." THEN "Empty"
    ELSE IF c \in {"@", "a"} THEN (IF player = 1 THEN "Me" ELSE "Opponent")
    ELSE IF c \in {"$", "s"} THEN (IF player = 2 THEN "Me" ELSE "Opponent")
    ELSE "Empty"

(* line.chars().skip_while(|c| c.is_ascii_digit() || c.is_whitespace()) *)
RECURSIVE SkipIndex(_)
SkipIndex(s) ==
    IF s # <<>> /\ (IsDigit(s[1]) \/ IsWhitespace(s[1])) THEN SkipIndex(Tail(s)) ELSE s

(* Lines 70-79: the owners of the characters of row_str other than ' '. *)
RECURSIVE RowOf(_, _)
RowOf(row_str, player) ==
    IF row_str = <<>> THEN <<>>
    ELSE IF row_str[1] = " " THEN RowOf(Tail(row_str), player)
    ELSE <<classify_char(row_str[1], player)>> \o RowOf(Tail(row_str), player)

(* Lines 81-83: `if !row.is_empty() { grid.push(row) }`. *)
PushRow(grid, row) == IF row # <<>> THEN Append(grid, row) ELSE grid

(* Lines 34-84: the loop over the lines from the i-th on. *)
RECURSIVE GridFrom(_, _, _, _, _)
GridFrom(lines, i, seen_header, grid, player) ==
    IF i > Len(lines) THEN grid
    ELSE LET line == lines[i]
             trimmed == Trim(line)
             row_str == SkipIndex(line)
         IN  IF trimmed = <<>> THEN GridFrom(lines, i + 1, seen_header, grid, player)
             ELSE IF StartsWith(trimmed, ANFIELD)
                  THEN GridFrom(lines, i + 1, TRUE, grid, player)
             ELSE IF ~seen_header THEN GridFrom(lines, i + 1, seen_header, grid, player)
             ELSE IF \A k \in 1..Len(trimmed) : IsDigit(trimmed[k]) \/ IsWhitespace(trimmed[k])
                  THEN GridFrom(lines, i + 1, seen_header, grid, player)
             ELSE IF row_str = <<>> THEN GridFrom(lines, i + 1, seen_header, grid, player)
             ELSE GridFrom(lines, i + 1, seen_header,
                           PushRow(grid, RowOf(row_str, player)), player)

from_anfield_lines(lines, player) ==
    IF lines = <<>> THEN None
    ELSE LET grid == GridFrom(lines, 1, FALSE, <<>>, player)
         IN  IF grid = <<>> THEN None
             ELSE Some([rows |-> Len(grid), cols |-> Len(grid[1]), cells |-> grid])

-----------------------------------------------------------------------------
(* piece.rs: from_piece_lines *)

(* lines.iter().position(|l| l.trim_start().starts_with("Piece")), 1-based; *)
(* 0 when there is none.                                                    *)
HeaderIndex(lines) ==
    LET hits == {k \in 1..Len(lines) : StartsWith(TrimStart(lines[k]), PIECE)}
    IN  IF hits = {} THEN 0 ELSE MinOf(hits)

(* Lines 47-57: the pattern rows collected from the i-th line on. *)
RECURSIVE PatternFrom(_, _, _, _)
PatternFrom(lines, i, expected_height, pattern) ==
    IF i > Len(lines) THEN pattern
    ELSE LET t == TrimEnd(lines[i])
         IN  IF t = <<>> THEN PatternFrom(lines, i + 1, expected_height, pattern)
             ELSE IF Len(pattern) + 1 = expected_height THEN Append(pattern, t)
             ELSE PatternFrom(lines, i + 1, expected_height, Append(pattern, t))

(* Lines 64-71: the declared width, widened to the longest pattern row. *)
PieceWidthDeclared(expected_width, pattern) == expected_width

PieceWidth(expected_width, pattern) ==
    MaxOf({expected_width} \cup {Len(pattern[y]) : y \in 1..Len(pattern)})

IsFilled(ch) == ch \in {"*", "O", "o"}

(* Lines 67-78: the filled offsets, row by row, left to right. *)
RECURSIVE FilledFrom(_, _, _)
FilledFrom(pattern, y, x) ==
    IF y > Len(pattern) THEN <<>>
    ELSE IF x > Len(pattern[y]) THEN FilledFrom(pattern, y + 1, 1)
    ELSE (IF IsFilled(pattern[y][x]) THEN <<<<y - 1, x - 1>>>> ELSE <<>>)
             \o FilledFrom(pattern, y, x + 1)

from_piece_lines(lines) ==
    IF lines = <<>> \/ HeaderIndex(lines) = 0 THEN None
    ELSE LET header_index == HeaderIndex(lines)
             parts == SplitWhitespace(Trim(lines[header_index]))
         IN  IF Len(parts) < 3 THEN None
             ELSE LET expected_width == ParseNumber(parts[2])
                      expected_height == ParseNumber(TrimEndColons(parts[3]))
                  IN  IF expected_width.tag = "None" \/ expected_height.tag = "None" THEN None
                      ELSE LET pattern == PatternFrom(lines, header_index + 1,
                                                      expected_height.val, <<>>)
                               filled_cells == FilledFrom(pattern, 1, 1)
                           IN  IF pattern = <<>> \/ filled_cells = <<>> THEN None
                               ELSE Some([width |-> PieceWidth(expected_width.val, pattern),
                                          height |-> Len(pattern),
                                          cells |-> filled_cells])

-----------------------------------------------------------------------------
(* parser.rs: parse_player_number *)

ColonIndex(s) ==
    LET hits == {k \in 1..Len(s) : s[k] = ":"}
    IN  IF hits = {} THEN 0 ELSE MinOf(hits)

parse_player_number(line) ==
    LET trimmed == Trim(line)
        after == SubSeq(trimmed, Len(EXEC_PREFIX) + 1, Len(trimmed))
        colon_pos == ColonIndex(after)
        num == ParseNumber(Trim(SubSeq(after, 1, colon_pos - 1)))
    IN  IF ~StartsWith(trimmed, EXEC_PREFIX) THEN None
        ELSE IF colon_pos = 0 THEN None
        ELSE IF num.tag = "Some" /\ num.val \in {1, 2} THEN num
        ELSE None

-----------------------------------------------------------------------------
(* SpecBoard: from_anfield_lines on every block of the bounded set: an     *)
(* optional "Anfield" header and up to MaxBoardLines lines, each an        *)
(* optional row index followed by up to MaxLineCells characters.           *)

SeqsUpTo(S, n) == UNION {[1..k -> S] : k \in 0..n}

AnfieldHeader == ANFIELD \o <<" ", "2", " ", "2", ":">>
BoardChars == {".", "@", "$", "a", " "}
BoardLines ==
    {prefix \o body : prefix \in {<<>>, <<"0", " ">>}, body \in SeqsUpTo(BoardChars, MaxLineCells)}
BoardInputs ==
    {head \o rest : head \in {<<>>, <<AnfieldHeader>>}, rest \in SeqsUpTo(BoardLines, MaxBoardLines)}

InitBoard ==
    /\ pc = "board_ready"
    /\ anfield_lines \in BoardInputs
    /\ my_player \in {1, 2}
    /\ board = None
    /\ piece = None
    /\ result = None
    /\ piece_lines = <<>>
    /\ need = 0
    /\ output = <<>>
    /\ nread = 0

ParseBoard ==
    /\ pc = "board_ready"
    /\ board' = from_anfield_lines(anfield_lines, my_player)
    /\ pc' = "board_parsed"
    /\ UNCHANGED <<piece, result, my_player, anfield_lines, piece_lines, need,
                   output, nread>>

NextBoard == ParseBoard

SpecBoard == InitBoard /\ [][NextBoard]_vars

-----------------------------------------------------------------------------
(* SpecPiece: from_piece_lines on every block of the bounded set: an       *)
(* optional leading line, a "Piece" header (well-formed with every         *)
(* declared size up to one more than the pattern can have, or malformed)   *)
(* and up to MaxPatternLines lines of up to MaxPatternLen characters.      *)

PieceHeader(w, h) == PIECE \o <<" ">> \o Decimal(w) \o <<" ">> \o Decimal(h) \o <<":">>
PieceHeaders ==
    {PieceHeader(w, h) : w \in 0..(MaxPatternLen + 1), h \in 0..(MaxPatternLines + 1)}
        \cup {PIECE \o <<" ", "1">>,
              PIECE \o <<" ", "x", " ", "1", ":">>,
              <<" ">> \o PIECE \o <<" ", "1", " ", "1", ":", ":", " ">>}
PatternChars == {".", "*", " "}
PatternLines == SeqsUpTo(PatternChars, MaxPatternLen)
PieceInputs ==
    {lead \o <<header>> \o rest :
        lead \in {<<>>, <<<<".", "*">>>>},
        header \in PieceHeaders,
        rest \in SeqsUpTo(PatternLines, MaxPatternLines)}

InitPiece ==
    /\ pc = "piece_ready"
    /\ piece_lines \in PieceInputs
    /\ my_player = 1
    /\ board = None
    /\ piece = None
    /\ result = None
    /\ anfield_lines = <<>>
    /\ need = 0
    /\ output = <<>>
    /\ nread = 0

ParsePiece ==
    /\ pc = "piece_ready"
    /\ piece' = from_piece_lines(piece_lines)
    /\ pc' = "piece_parsed"
    /\ UNCHANGED <<board, result, my_player, anfield_lines, piece_lines, need,
                   output, nread>>

NextPiece == ParsePiece

SpecPiece == InitPiece /\ [][NextPiece]_vars

-----------------------------------------------------------------------------
(* SpecMain: main.rs.  Every lines.next() is one step; the environment     *)
(* hands it any line of StdinLines, or the end of the input.  At most      *)
(* MaxRead lines are read.                                                 *)

StdinLines ==
    {EXEC_PREFIX \o <<"1", " ", ":">>,
     EXEC_PREFIX \o <<"3", " ", ":">>,
     AnfieldHeader,
     <<"0", " ", "@", "$">>,
     <<"0", " ", "@", ".">>,
     <<"0", " ", ".", ".">>,
     <<"1", " ", ".">>,
     PieceHeader(1, 1),
     PieceHeader(1, 2),
     <<"*">>,
     <<".">>}

InitMain ==
    /\ pc = "handshake"
    /\ my_player = 0
    /\ board = None
    /\ piece = None
    /\ result = None
    /\ anfield_lines = <<>>
    /\ piece_lines = <<>>
    /\ need = 0
    /\ output = <<>>
    /\ nread = 0

(* Lines 28-31, 52-55, 73-76, 106-109: lines.next() gives no line: main    *)
(* returns or leaves the game loop.                                        *)
EndOfInput ==
    /\ pc \in {"handshake", "find_anfield", "read_board", "read_piece"}
    /\ pc' = "exit"
    /\ UNCHANGED <<board, piece, result, my_player, anfield_lines, piece_lines,
                   need, output, nread>>

(* Lines 20-33: skip lines until the exec line names the player. *)
ReadHandshake ==
    /\ pc = "handshake"
    /\ nread < MaxRead
    /\ \E line \in StdinLines :
        LET num == parse_player_number(line)
        IN  /\ nread' = nread + 1
            /\ IF num.tag = "Some"
               THEN my_player' = num.val /\ pc' = "find_anfield"
               ELSE UNCHANGED <<my_player, pc>>
    /\ UNCHANGED <<board, piece, result, anfield_lines, piece_lines, need, output>>

(* Lines 41-59: skip lines until the "Anfield" header. *)
ReadAnfieldHeader ==
    /\ pc = "find_anfield"
    /\ nread < MaxRead
    /\ \E line \in StdinLines :
        /\ nread' = nread + 1
        /\ IF StartsWith(TrimStart(line), ANFIELD)
           THEN anfield_lines' = <<line>> /\ pc' = "read_board"
           ELSE UNCHANGED <<anfield_lines, pc>>
    /\ UNCHANGED <<board, piece, result, my_player, piece_lines, need, output>>

(* Lines 90-101: the height of the piece header, 0 when it does not parse. *)
HeaderHeight(piece_header) ==
    LET parts == SplitWhitespace(Trim(piece_header))
    IN  IF Len(parts) >= 3
        THEN LET h == ParseNumber(TrimEndColons(parts[3]))
             IN  IF h.tag = "Some" THEN h.val ELSE 0
        ELSE 0

(* Lines 114-117 once the pattern lines are in: parse the piece, leave the *)
(* game loop if there is none, else go on to the call.                     *)
PieceBlockRead(lines) ==
    LET p == from_piece_lines(lines)
    IN  IF p.tag = "None"
        THEN pc' = "exit" /\ piece' = None
        ELSE pc' = "call" /\ piece' = p.val

(* Lines 63-111: collect the board block up to the "Piece" header, then    *)
(* parse the board and start on the piece block.                           *)
ReadBoardLine ==
    /\ pc = "read_board"
    /\ nread < MaxRead
    /\ \E line \in StdinLines :
        /\ nread' = nread + 1
        /\ IF ~StartsWith(TrimStart(line), PIECE)
           THEN /\ anfield_lines' = Append(anfield_lines, line)
                /\ UNCHANGED <<pc, board, piece, piece_lines, need>>
           ELSE LET b == from_anfield_lines(anfield_lines, my_player)
                IN  IF b.tag = "None"
                    THEN /\ pc' = "exit"
                         /\ UNCHANGED <<anfield_lines, board, piece, piece_lines, need>>
                    ELSE /\ board' = b.val
                         /\ piece_lines' = <<line>>
                         /\ need' = HeaderHeight(line)
                         /\ IF HeaderHeight(line) = 0
                            THEN PieceBlockRead(<<line>>)
                            ELSE pc' = "read_piece" /\ piece' = piece
                         /\ UNCHANGED anfield_lines
    /\ UNCHANGED <<result, my_player, output>>

(* Lines 103-117: one more pattern line; after the last one the piece is   *)
(* parsed.                                                                 *)
ReadPieceLine ==
    /\ pc = "read_piece"
    /\ nread < MaxRead
    /\ \E line \in StdinLines :
        /\ nread' = nread + 1
        /\ piece_lines' = Append(piece_lines, line)
        /\ need' = need - 1
        /\ IF need = 1
           THEN PieceBlockRead(Append(piece_lines, line))
           ELSE UNCHANGED <<pc, piece>>
    /\ UNCHANGED <<board, result, my_player, anfield_lines, output>>

(* Line 120: the call.  A panic inside it ends the process. *)
Call ==
    /\ pc = "call"
    /\ result' = choose_best_move(board, piece)
    /\ pc' = IF result'.tag = "Panic" THEN "aborted" ELSE "print"
    /\ UNCHANGED <<board, piece, my_player, anfield_lines, piece_lines, need,
                   output, nread>>

(* Lines 120-126: println!("{} {}", out_y, out_x) with (0, 0) for None;    *)
(* the iteration ends and its board, piece and lines are dropped.          *)
MoveLine(r) ==
    LET out == IF r.tag = "Some" THEN r.val ELSE <<0, 0>>
    IN  Decimal(out[1]) \o <<" ">> \o Decimal(out[2])

PrintMove ==
    /\ pc = "print"
    /\ output' = Append(output, MoveLine(result))
    /\ pc' = "find_anfield"
    /\ board' = None
    /\ piece' = None
    /\ result' = None
    /\ anfield_lines' = <<>>
    /\ piece_lines' = <<>>
    /\ need' = 0
    /\ UNCHANGED <<my_player, nread>>

NextMain ==
    \/ EndOfInput
    \/ ReadHandshake
    \/ ReadAnfieldHeader
    \/ ReadBoardLine
    \/ ReadPieceLine
    \/ Call
    \/ PrintMove

SpecMain == InitMain /\ [][NextMain]_vars

-----------------------------------------------------------------------------
(* What the claims speak about, stated on sets rather than as the loops of *)
(* the source.                                                             *)

(* The cells a piece covers when anchored at (top, left). *)
Footprint(p, top, left) == {<<top + c[1], left + c[2]>> : c \in Range(p.cells)}

InBoard(b, c) == c[1] < b.rows /\ c[2] < b.cols

(* Legality as the spec words it: all covered cells inside the board (and  *)
(* present in the grid), none Opponent-owned, exactly one Me-owned.        *)
Legal(b, p, top, left) ==
    LET F == Footprint(p, top, left)
    IN  /\ \A c \in F : InBoard(b, c) /\ IndexOk(b, c[1], c[2])
        /\ \A c \in F : Cell(b, c[1], c[2]) # "Opponent"
        /\ Cardinality({c \in F : Cell(b, c[1], c[2]) = "Me"}) = 1

(* The anchors of lines 68-69. *)
Scanned(b, p) == (0..(max_y(b, p) - 1)) \X (0..(max_x(b, p) - 1))

BoxInside(b, p, top, left) == top + p.height <= b.rows /\ left + p.width <= b.cols

Returned == pc = "done"

-----------------------------------------------------------------------------
(* C1: whenever choose_best_move returns Some((top, left)), every filled   *)
(* offset of the piece lands on a cell inside the board, none of these     *)
(* cells is Opponent-owned and exactly one of them is Me-owned.            *)
C1_ReturnedPlacementIsLegal ==
    (Returned /\ result.tag = "Some")
        => Legal(board, piece, result.val[1], result.val[2])

(* A two-cell piece has been placed next to an opponent cell. *)
C1_Witness ==
    /\ Returned /\ result.tag = "Some"
    /\ Len(piece.cells) = 2
    /\ \E y \in 0..(board.rows - 1), x \in 0..(board.cols - 1) :
           Cell(board, y, x) = "Opponent"

-----------------------------------------------------------------------------
(* C2: if no scanned anchor passes is_valid_placement, choose_best_move    *)
(* returns None; in particular it returns None on every board without a    *)
(* Me-owned cell (every piece of the model is non-empty).                  *)
NoMeCell(b) == \A y \in 1..Len(b.cells) : \A x \in 1..Len(b.cells[y]) : b.cells[y][x] # "Me"

(* An anchor passes only if is_valid_placement is reached and says true. *)
NoAnchorPasses(b, p) ==
    \A a \in Scanned(b, p) : ~(~PrecomputePanics(b) /\ is_valid_placement(b, p, a[1], a[2]))

C2_NoLegalAnchorGivesNone ==
    Returned => /\ NoAnchorPasses(board, piece) => result = None
                /\ NoMeCell(board) => result = None

-----------------------------------------------------------------------------
(* C3: choose_best_move runs to completion on every Board and Piece: it    *)
(* returns Some or None and never aborts on an index or a division.        *)
C3_NeverAborts == Returned => result.tag \in {"Some", "None"}

-----------------------------------------------------------------------------
(* C4: a piece whose bounding box is taller or wider than the board gets   *)
(* no placement; equivalently every returned anchor keeps the bounding box *)
(* inside the board: top + height <= rows and left + width <= cols.        *)
C4_ReturnedBoxInsideBoard ==
    (Returned /\ result.tag = "Some")
        => BoxInside(board, piece, result.val[1], result.val[2])

-----------------------------------------------------------------------------
(* C5: on the 3x3 board that is empty but for a Me cell at (1,1), with the *)
(* 1x1 piece, each of the four orthogonal neighbours of (1,1) is a legal   *)
(* anchor and choose_best_move returns one of these four.                  *)
ScenarioPiece == [width |-> 1, height |-> 1, cells |-> <<<<0, 0>>>>]
Neighbours == {<<0, 1>>, <<2, 1>>, <<1, 0>>, <<1, 2>>}
InScenario == board = ScenarioBoard /\ piece = ScenarioPiece

-----------------------------------------------------------------------------
(* C6: whenever a legal anchor with the bounding box inside the board      *)
(* exists, choose_best_move returns the legal anchor of highest            *)
(* score_placement value, and among those of equal highest score the first *)
(* in row-major order (smallest top, then smallest left).                  *)
LegalInside(b, p) ==
    {a \in (0..(b.rows - 1)) \X (0..(b.cols - 1)) :
        BoxInside(b, p, a[1], a[2]) /\ Legal(b, p, a[1], a[2])}

RowMajorBefore(a, c) == a[1] < c[1] \/ (a[1] = c[1] /\ a[2] <= c[2])

ScoreAt(b, p, a) == Score(b, p, Context(b), a[1], a[2])

C6_ReturnsFirstBestAnchor ==
    (Returned /\ LegalInside(board, piece) # {})
        => /\ result.tag = "Some"
           /\ result.val \in LegalInside(board, piece)
           /\ \A a \in LegalInside(board, piece) :
                  /\ ScoreAt(board, piece, a).val <= ScoreAt(board, piece, result.val).val
                  /\ ScoreAt(board, piece, a).val = ScoreAt(board, piece, result.val).val
                         => RowMajorBefore(result.val, a)

-----------------------------------------------------------------------------
(* C8: is_valid_placement returns true exactly when all covered cells are  *)
(* inside the board, none is Opponent-owned and exactly one is Me-owned,   *)
(* whatever the order in which the offsets are listed.  (It is reached     *)
(* only on boards that passed the scan of lines 25-33.)                    *)
(* The rotations of a list and their reversals: every ordering of a list   *)
(* of up to three offsets, and 2n orderings of a longer one.               *)
Orderings(s) ==
    LET n == Len(s)
        Rot(k) == [i \in 1..n |-> s[((i + k - 1) % n) + 1]]
        Rev(t) == [i \in 1..n |-> t[n + 1 - i]]
    IN  {Rot(k) : k \in 0..(n - 1)} \cup {Rev(Rot(k)) : k \in 0..(n - 1)}

C8_ValidIffLegal ==
    (Returned /\ ~PrecomputePanics(board))
        => \A top \in 0..(board.rows - 1), left \in 0..(board.cols - 1) :
             LET legal == Legal(board, piece, top, left)
             IN  \A order \in Orderings(piece.cells) :
                     is_valid_placement(board, [piece EXCEPT !.cells = order], top, left)
                         <=> legal

(* A two-cell piece covers one Me cell and one Empty cell and is accepted, *)
(* while another anchor of the same board is rejected.                     *)
C8_Witness ==
    /\ Returned /\ ~PrecomputePanics(board)
    /\ Len(piece.cells) = 2
    /\ \E a \in Scanned(board, piece) :
           /\ is_valid_placement(board, piece, a[1], a[2])
           /\ \E c \in Footprint(piece, a[1], a[2]) : Cell(board, c[1], c[2]) = "Empty"
    /\ \E a \in Scanned(board, piece) : ~is_valid_placement(board, piece, a[1], a[2])

-----------------------------------------------------------------------------
(* C7: in the turn loop every call of choose_best_move is followed, before *)
(* any further line is read, by exactly one printed line, "y x" for        *)
(* Some((y, x)) and "0 0" for None, and the loop then goes on to the next  *)
(* turn.                                                                   *)
ExpectedLine(r) ==
    IF r.tag = "Some"
    THEN <<DigitChars[r.val[1] + 1], " ", DigitChars[r.val[2] + 1]>>
    ELSE <<"0", " ", "0">>

C7_EveryCallIsAnswered ==
    [][/\ pc = "call" => pc' = "print"
       /\ pc = "print" => /\ output' = Append(output, ExpectedLine(result))
                          /\ nread' = nread
                          /\ pc' = "find_anfield"]_vars

-----------------------------------------------------------------------------
(* C9: every Board that from_anfield_lines returns is rectangular:         *)
(* rows >= 1, cols >= 1, cells has rows rows and each of them cols cells.  *)
C9_ParsedBoardIsRectangular ==
    (pc = "board_parsed" /\ board.tag = "Some")
        => /\ board.val.rows >= 1
           /\ board.val.cols >= 1
           /\ Len(board.val.cells) = board.val.rows
           /\ \A y \in 1..Len(board.val.cells) :
                  Len(board.val.cells[y]) = board.val.cols

-----------------------------------------------------------------------------
(* C10: every Piece that from_piece_lines returns has at least one filled  *)
(* offset, and every filled offset (dy, dx) has 0 <= dy < height and       *)
(* 0 <= dx < width, also when a pattern row is longer than the declared    *)
(* width or fewer rows are present than the declared height.               *)
C10_ParsedPieceOffsetsInBox ==
    (pc = "piece_parsed" /\ piece.tag = "Some")
        => /\ piece.val.cells # <<>>
           /\ \A k \in 1..Len(piece.val.cells) :
                  /\ 0 <= piece.val.cells[k][1] /\ piece.val.cells[k][1] < piece.val.height
                  /\ 0 <= piece.val.cells[k][2] /\ piece.val.cells[k][2] < piece.val.width

(* "Piece 1 2:" followed by the single row "**": the row is longer than    *)
(* the declared width and one row short of the declared height.            *)
C10_Witness ==
    /\ pc = "piece_parsed"
    /\ piece_lines = <<PieceHeader(1, 2), <<"*", "*">>>>
    /\ piece.tag = "Some"
    /\ piece.val.width = 2 /\ piece.val.height = 1

-----------------------------------------------------------------------------
(* The Me-owned and Opponent-owned cells of a board, as sets. *)
CellsOf(b, o) ==
    {c \in (0..(b.rows - 1)) \X (0..(b.cols - 1)) :
        IndexOk(b, c[1], c[2]) /\ Cell(b, c[1], c[2]) = o}

(* No Me-owned cell is within Manhattan distance 5 of an Opponent-owned    *)
(* cell: the minimum distance of the board is greater than 5 (with no      *)
(* Opponent cell there is no distance at all, and find_closest_pair        *)
(* answers usize::MAX).                                                    *)
FarApart(b) ==
    \A m \in CellsOf(b, "Me") : \A e \in CellsOf(b, "Opponent") :
        Abs(m[1] - e[1]) + Abs(m[2] - e[2]) > 5

ModeOfBoard(b) == IF FarApart(b) THEN "rush" ELSE "block"

-----------------------------------------------------------------------------
(* How far the refuted claims C2, C4 and C6 do hold.  None of these is a   *)
(* claim's formula; they record what the counterexamples leave standing.   *)

(* On a board that gets through the scan of lines 25-33 (no row shorter    *)
(* than cols), no passing anchor, or no Me cell, gives None.               *)
NoneWithoutLegalAnchorAfterScan ==
    (Returned /\ ~PrecomputePanics(board))
        => /\ NoAnchorPasses(board, piece) => result = None
           /\ NoMeCell(board) => result = None

(* A piece that fits into the board is only ever anchored with its box     *)
(* inside the board.                                                       *)
BoxInsideWhenPieceFits ==
    (Returned /\ result.tag = "Some"
        /\ piece.height <= board.rows /\ piece.width <= board.cols)
        => BoxInside(board, piece, result.val[1], result.val[2])

(* Whenever the call does not abort, it returns the first best anchor.     *)
FirstBestAnchorUnlessAborted ==
    (Returned /\ result.tag # "Panic" /\ LegalInside(board, piece) # {})
        => /\ result.tag = "Some"
           /\ result.val \in LegalInside(board, piece)
           /\ \A a \in LegalInside(board, piece) :
                  /\ ScoreAt(board, piece, a).val <= ScoreAt(board, piece, result.val).val
                  /\ ScoreAt(board, piece, a).val = ScoreAt(board, piece, result.val).val
                         => RowMajorBefore(result.val, a)

=============================================================================
